---- MODULE Spec2Model ----
(***************************************************************************)
(* Model of rana's concurrent key search (src/src/main.rs): the main       *)
(* thread resolves the target mode, creates the two shared atomics and     *)
(* spawns num_cores workers; every worker loops generate / evaluate /      *)
(* report.  Strings are sequences of one-character strings, byte strings   *)
(* are sequences of numbers in 0..255.                                     *)
(***************************************************************************)
EXTENDS Integers, Sequences, FiniteSets, TLC

\* ---------------------------------------------------------------- bounds

\* largest num_cores argument tried
MaxCores == 2
\* loop iterations started by all workers together; the AtomicU64 counter
\* cannot wrap below this cap
MaxIter == 2

\* ---------------------------------------------------------------- constants

DIFFICULTY_DEFAULT == 10

\* width of the AtomicU8 register and of the `as u8` casts
U8 == 256

\* ---------------------------------------------------------------- strings

StartsWith(s, p) ==
    /\ Len(p) <= Len(s)
    /\ \A i \in 1..Len(p) : s[i] = p[i]

EndsWith(s, p) ==
    /\ Len(p) <= Len(s)
    /\ \A i \in 1..Len(p) : s[Len(s) - Len(p) + i] = p[i]

HexChars ==
    <<"0", "1", "2", "3", "4", "5", "6", "7",
      "8", "9", "a", "b", "c", "d", "e", "f">>

RECURSIVE ToHex(_)
ToHex(bytes) ==
    IF bytes = <<>> THEN <<>>
    ELSE <<HexChars[(Head(bytes) \div 16) + 1], HexChars[(Head(bytes) % 16) + 1]>>
         \o ToHex(Tail(bytes))

\* zero bits of byte b before its first set bit, looking at its low `bit` bits
RECURSIVE ByteLeadingZeros(_, _)
ByteLeadingZeros(b, bit) ==
    IF bit = 0 THEN 0
    ELSE IF (b \div (2^(bit - 1))) % 2 = 1 THEN 0
    ELSE 1 + ByteLeadingZeros(b, bit - 1)

\* rana::utils::get_leading_zero_bits: zero bits before the first set bit,
\* most significant first; all bits when there is none
RECURSIVE get_leading_zero_bits(_)
get_leading_zero_bits(bytes) ==
    IF bytes = <<>> THEN 0
    ELSE IF Head(bytes) = 0 THEN 8 + get_leading_zero_bits(Tail(bytes))
    ELSE ByteLeadingZeros(Head(bytes), 8)

Npub1 == <<"n", "p", "u", "b", "1">>
Dots == <<".", ".", ".">>

\* ---------------------------------------------------------------- bech32

\* bitwise exclusive or of two naturals below 2^n
RECURSIVE XorBits(_, _, _)
XorBits(a, b, n) ==
    IF n = 0 THEN 0
    ELSE (((a % 2) + (b % 2)) % 2) + 2 * XorBits(a \div 2, b \div 2, n - 1)

Xor(a, b) == XorBits(a, b, 30)

\* the bech32 character set, value 0 first
Charset ==
    <<"q", "p", "z", "r", "y", "9", "x", "8", "g", "f", "2", "t", "v", "d", "w", "0",
      "s", "3", "j", "n", "5", "4", "k", "h", "c", "e", "6", "m", "u", "a", "7", "l">>

\* the generator constants of the checksum
Gen == <<996825010, 642813549, 513874426, 1027748829, 705979059>>

\* the human readable part "npub" expanded: high bits, 0, low bits
HrpExpand == <<3, 3, 3, 3, 0, 14, 16, 21, 2>>

\* chk ^= GEN[i] for every set bit i of b
GenMask(b) ==
    LET g(i) == IF (b \div (2^(i - 1))) % 2 = 1 THEN Gen[i] ELSE 0
    IN Xor(Xor(Xor(g(1), g(2)), Xor(g(3), g(4))), g(5))

PolymodStep(chk, v) ==
    Xor(Xor((chk % (2^25)) * 32, v), GenMask(chk \div (2^25)))

\* the checksum state after the first i values
RECURSIVE PolymodUpTo(_, _)
PolymodUpTo(values, i) ==
    IF i = 0 THEN 1
    ELSE LET chk == PolymodUpTo(values, i - 1)
         IN IF chk >= 0 THEN PolymodStep(chk, values[i]) ELSE 0

Polymod(values) == PolymodUpTo(values, Len(values))

Checksum(data) ==
    LET pm == Xor(Polymod(HrpExpand \o data \o <<0, 0, 0, 0, 0, 0>>), 1)
    IN [i \in 1..6 |-> (pm \div (2^(5 * (6 - i)))) % 32]

RECURSIVE BitsOf(_)
BitsOf(bytes) ==
    IF bytes = <<>> THEN <<>>
    ELSE [i \in 1..8 |-> (Head(bytes) \div (2^(8 - i))) % 2] \o BitsOf(Tail(bytes))

\* ToBase32: regroup the bytes into 5-bit values, the last one zero padded
ToBase32(bytes) ==
    LET bits == BitsOf(bytes)
        bit(i) == IF i <= Len(bits) THEN bits[i] ELSE 0
    IN [g \in 1..((Len(bits) + 4) \div 5) |->
           16 * bit(5 * g - 4) + 8 * bit(5 * g - 3) + 4 * bit(5 * g - 2)
           + 2 * bit(5 * g - 1) + bit(5 * g)]

\* bech32::encode("npub", data.to_base32(), Variant::Bech32)
Bech32Of(bytes) ==
    LET data == ToBase32(bytes)
        all == data \o Checksum(data)
    IN Npub1 \o [i \in 1..Len(all) |-> Charset[all[i] + 1]]

\* ---------------------------------------------------------------- inputs

\* x-only public keys a generation can return:
\*   hex 0001, 15 leading zero bits, npub1qqqsptnsh5
\*   hex 00ab,  8 leading zero bits, npub1qz4segaqkg
\*   hex 4000,  1 leading zero bit,  npub1gqqq3308g5
Keys == {<<0, 1>>, <<0, 171>>, <<64, 0>>}

\* the encoding of every key, computed once
Bech32Table == [k \in Keys |-> Bech32Of(k)]

bech32_encode(bytes) == Bech32Table[bytes]

\* the command line: pieces of the comma separated lists, before filtering
DifficultyArgs == {0, 1}
VanityPrefixArgs == {<<>>, <<"0", "0">>}
NpubPrefixesRaw == {<< <<>> >>, << <<"q", "q">>, <<>>, <<"q">> >>}
NpubSuffixesRaw == {<< <<>> >>, << <<"h", "5">>, <<"g">> >>}
WordCountArgs == {0, 12}

CLIArgs ==
    [difficulty : DifficultyArgs,
     vanity_prefix : VanityPrefixArgs,
     vanity_npub_prefixes_raw_input : NpubPrefixesRaw,
     vanity_npub_suffixes_raw_input : NpubSuffixesRaw,
     num_cores : 0..MaxCores,
     word_count : WordCountArgs]

NonEmptyPieces(raw) == SelectSeq(raw, LAMBDA piece : piece # <<>>)

Workers == 1..(MaxCores)

\* ---------------------------------------------------------------- state

VARIABLES
    args,                   \* parsed_args
    main_pc,                \* position of the main thread
    difficulty,             \* main: let mut difficulty
    pow_difficulty,         \* main: let mut pow_difficulty
    vanity_npub_prefixes,   \* main: filtered prefix list
    vanity_npub_suffixes,   \* main: filtered suffix list
    announced,              \* which "Started mining process ..." line was printed
    best_diff,              \* Arc<AtomicU8>
    iterations,             \* Arc<AtomicU64>
    vanity_ts,              \* Arc<String>
    vanity_npubs_pre_ts,    \* Arc<Vec<String>>
    vanity_npubs_post_ts,   \* Arc<Vec<String>>
    spawned,                \* threads spawned so far
    pc,                     \* position of each worker
    key,                    \* worker: xonly_public_key_serialized
    uses_mnemonic,          \* worker: uses_mnemonic.is_some()
    bech_key,               \* worker: bech_key
    leading_zeroes,         \* worker: leading_zeroes
    is_valid_pubkey,        \* worker: is_valid_pubkey
    vanity_npub,            \* worker: vanity_npub
    reports,                \* what print_keys and the statistics line were given, in order
    started,                \* per worker, loop iterations begun
    completed               \* per worker, loop iterations run to the end of the body

mainVars == <<args, main_pc, difficulty, pow_difficulty, vanity_npub_prefixes,
              vanity_npub_suffixes, announced, spawned>>
sharedVars == <<best_diff, iterations, vanity_ts, vanity_npubs_pre_ts, vanity_npubs_post_ts>>
localVars == <<key, uses_mnemonic, bech_key, leading_zeroes, is_valid_pubkey, vanity_npub>>
histVars == <<reports, started, completed>>
vars == <<mainVars, sharedVars, pc, localVars, histVars>>

Init ==
    /\ args \in CLIArgs
    /\ main_pc = "check_args"
    /\ difficulty = args.difficulty
    /\ pow_difficulty = 0
    /\ vanity_npub_prefixes = NonEmptyPieces(args.vanity_npub_prefixes_raw_input)
    /\ vanity_npub_suffixes = NonEmptyPieces(args.vanity_npub_suffixes_raw_input)
    /\ announced = "none"
    /\ best_diff = 0
    /\ iterations = 0
    /\ vanity_ts = <<>>
    /\ vanity_npubs_pre_ts = <<>>
    /\ vanity_npubs_post_ts = <<>>
    /\ spawned = 0
    /\ pc = [w \in Workers |-> "unspawned"]
    /\ key = [w \in Workers |-> <<>>]
    /\ uses_mnemonic = [w \in Workers |-> FALSE]
    /\ bech_key = [w \in Workers |-> <<>>]
    /\ leading_zeroes = [w \in Workers |-> 0]
    /\ is_valid_pubkey = [w \in Workers |-> FALSE]
    /\ vanity_npub = [w \in Workers |-> <<>>]
    /\ reports = <<>>
    /\ started = [w \in Workers |-> 0]
    /\ completed = [w \in Workers |-> 0]

\* ---------------------------------------------------------------- main thread

\* rana::cli::check_args: a configuration error is fatal before anything starts
ArgsOk(a) == a.num_cores > 0

\* the result of the check is ignored
CheckArgsIgnored ==
    /\ main_pc = "check_args"
    /\ main_pc' = "resolve"
    /\ UNCHANGED <<args, difficulty, pow_difficulty, vanity_npub_prefixes,
                   vanity_npub_suffixes, announced, spawned>>
    /\ UNCHANGED <<sharedVars, pc, localVars, histVars>>

CheckArgs ==
    /\ main_pc = "check_args"
    /\ main_pc' = IF ArgsOk(args) THEN "resolve" ELSE "config_error"
    /\ UNCHANGED <<args, difficulty, pow_difficulty, vanity_npub_prefixes,
                   vanity_npub_suffixes, announced, spawned>>
    /\ UNCHANGED <<sharedVars, pc, localVars, histVars>>

\* the bech32 tests placed before the hex prefix test
ResolveModeNpubFirst(vp, pre, post, diff) ==
    IF pre # <<>> /\ post # <<>> THEN
        [mode |-> "npub_both", difficulty |-> diff,
         pow_difficulty |-> ((Len(pre[1]) * 4) + (Len(post[1]) * 4)) % U8]
    ELSE IF pre # <<>> THEN
        [mode |-> "npub_prefix", difficulty |-> diff,
         pow_difficulty |-> (Len(pre[1]) * 4) % U8]
    ELSE IF post # <<>> THEN
        [mode |-> "npub_suffix", difficulty |-> diff,
         pow_difficulty |-> (Len(post[1]) * 4) % U8]
    ELSE IF vp # <<>> THEN
        [mode |-> "hex", difficulty |-> diff,
         pow_difficulty |-> (Len(vp) * 4) % U8]
    ELSE IF diff = 0 THEN
        [mode |-> "difficulty", difficulty |-> DIFFICULTY_DEFAULT,
         pow_difficulty |-> DIFFICULTY_DEFAULT]
    ELSE
        [mode |-> "difficulty", difficulty |-> diff, pow_difficulty |-> diff]

\* the default is not applied: a difficulty of 0 stays 0
ResolveModeNoDefault(vp, pre, post, diff) ==
    IF vp # <<>> THEN
        [mode |-> "hex", difficulty |-> diff,
         pow_difficulty |-> (Len(vp) * 4) % U8]
    ELSE IF pre # <<>> /\ post # <<>> THEN
        [mode |-> "npub_both", difficulty |-> diff,
         pow_difficulty |-> ((Len(pre[1]) * 4) + (Len(post[1]) * 4)) % U8]
    ELSE IF pre # <<>> THEN
        [mode |-> "npub_prefix", difficulty |-> diff,
         pow_difficulty |-> (Len(pre[1]) * 4) % U8]
    ELSE IF post # <<>> THEN
        [mode |-> "npub_suffix", difficulty |-> diff,
         pow_difficulty |-> (Len(post[1]) * 4) % U8]
    ELSE
        [mode |-> "difficulty", difficulty |-> diff, pow_difficulty |-> diff]

\* the estimate taken from the shortest entry instead of the first
ShortestLen(list) ==
    CHOOSE n \in {Len(list[i]) : i \in 1..Len(list)} :
        \A i \in 1..Len(list) : n <= Len(list[i])

ResolveModeShortest(vp, pre, post, diff) ==
    IF vp # <<>> THEN
        [mode |-> "hex", difficulty |-> diff,
         pow_difficulty |-> (Len(vp) * 4) % U8]
    ELSE IF pre # <<>> /\ post # <<>> THEN
        [mode |-> "npub_both", difficulty |-> diff,
         pow_difficulty |-> ((ShortestLen(pre) * 4) + (ShortestLen(post) * 4)) % U8]
    ELSE IF pre # <<>> THEN
        [mode |-> "npub_prefix", difficulty |-> diff,
         pow_difficulty |-> (ShortestLen(pre) * 4) % U8]
    ELSE IF post # <<>> THEN
        [mode |-> "npub_suffix", difficulty |-> diff,
         pow_difficulty |-> (ShortestLen(post) * 4) % U8]
    ELSE IF diff = 0 THEN
        [mode |-> "difficulty", difficulty |-> DIFFICULTY_DEFAULT,
         pow_difficulty |-> DIFFICULTY_DEFAULT]
    ELSE
        [mode |-> "difficulty", difficulty |-> diff, pow_difficulty |-> diff]

\* the if / else-if chain that announces the mode and sets pow_difficulty
ResolveMode(vp, pre, post, diff) ==
    IF vp # <<>> THEN
        [mode |-> "hex", difficulty |-> diff,
         pow_difficulty |-> (Len(vp) * 4) % U8]
    ELSE IF pre # <<>> /\ post # <<>> THEN
        [mode |-> "npub_both", difficulty |-> diff,
         pow_difficulty |-> ((Len(pre[1]) * 4) + (Len(post[1]) * 4)) % U8]
    ELSE IF pre # <<>> THEN
        [mode |-> "npub_prefix", difficulty |-> diff,
         pow_difficulty |-> (Len(pre[1]) * 4) % U8]
    ELSE IF post # <<>> THEN
        [mode |-> "npub_suffix", difficulty |-> diff,
         pow_difficulty |-> (Len(post[1]) * 4) % U8]
    ELSE IF diff = 0 THEN
        [mode |-> "difficulty", difficulty |-> DIFFICULTY_DEFAULT,
         pow_difficulty |-> DIFFICULTY_DEFAULT]
    ELSE
        [mode |-> "difficulty", difficulty |-> diff, pow_difficulty |-> diff]

Resolve ==
    /\ main_pc = "resolve"
    /\ LET r == ResolveMode(args.vanity_prefix, vanity_npub_prefixes,
                            vanity_npub_suffixes, difficulty)
       IN /\ announced' = r.mode
          /\ difficulty' = r.difficulty
          /\ pow_difficulty' = r.pow_difficulty
    /\ main_pc' = "create_shared"
    /\ UNCHANGED <<args, vanity_npub_prefixes, vanity_npub_suffixes, spawned>>
    /\ UNCHANGED <<sharedVars, pc, localVars, histVars>>

CreateShared ==
    /\ main_pc = "create_shared"
    /\ best_diff' = pow_difficulty
    /\ vanity_ts' = args.vanity_prefix
    /\ vanity_npubs_pre_ts' = vanity_npub_prefixes
    /\ vanity_npubs_post_ts' = vanity_npub_suffixes
    /\ iterations' = 0
    /\ main_pc' = "spawn"
    /\ UNCHANGED <<args, difficulty, pow_difficulty, vanity_npub_prefixes,
                   vanity_npub_suffixes, announced, spawned>>
    /\ UNCHANGED <<pc, localVars, histVars>>

\* one turn of `for _ in 0..num_cores { thread::spawn(..) }`
SpawnWorker ==
    /\ main_pc = "spawn"
    /\ spawned < args.num_cores
    /\ spawned' = spawned + 1
    /\ pc' = [pc EXCEPT ![spawned + 1] = "loop"]
    /\ UNCHANGED <<args, main_pc, difficulty, pow_difficulty, vanity_npub_prefixes,
                   vanity_npub_suffixes, announced>>
    /\ UNCHANGED <<sharedVars, localVars, histVars>>

\* the loop leaves one turn early (1..num_cores)
SpawnDoneEarly ==
    /\ main_pc = "spawn"
    /\ spawned + 1 >= args.num_cores
    /\ main_pc' = "sleep"
    /\ UNCHANGED <<args, difficulty, pow_difficulty, vanity_npub_prefixes,
                   vanity_npub_suffixes, announced, spawned>>
    /\ UNCHANGED <<sharedVars, pc, localVars, histVars>>

SpawnDone ==
    /\ main_pc = "spawn"
    /\ spawned >= args.num_cores
    /\ main_pc' = "sleep"
    /\ UNCHANGED <<args, difficulty, pow_difficulty, vanity_npub_prefixes,
                   vanity_npub_suffixes, announced, spawned>>
    /\ UNCHANGED <<sharedVars, pc, localVars, histVars>>

\* loop { thread::sleep(3600 s) }
MainSleep ==
    /\ main_pc = "sleep"
    /\ UNCHANGED vars

\* ---------------------------------------------------------------- atomics

\* the increment is dropped: the counter is only read
fetch_add_dropped(v, n) == v

\* AtomicU64::fetch_add(1): one indivisible read-modify-write
fetch_add(v, n) == v + n

\* the closure returns None: the register keeps its value
fetch_update_keeps(cur, new) == cur

\* AtomicU8::fetch_update(.., |_| Some(new)): the closure ignores the current
\* value, so the register is overwritten with new
fetch_update(cur, new) == new

\* ---------------------------------------------------------------- match evaluation

\* receiver and argument swapped: vanity_ts.starts_with(hexa_key)
HexSearchSwapped(hexa_key, prefix) == StartsWith(prefix, hexa_key)

\* hexa_key.starts_with(vanity_ts)
HexSearch(hexa_key, prefix) == StartsWith(hexa_key, prefix)

\* for post in posts { is_valid = starts(npub1 + pre) && ends(post); if is_valid { label; break } }
RECURSIVE InnerSuffixLoop(_, _, _, _)
InnerSuffixLoop(bech, pre, posts, j) ==
    IF j > Len(posts) THEN [valid |-> FALSE, label |-> <<>>]
    ELSE IF StartsWith(bech, Npub1 \o pre) /\ EndsWith(bech, posts[j])
         THEN [valid |-> TRUE, label |-> pre \o Dots \o posts[j]]
         ELSE InnerSuffixLoop(bech, pre, posts, j + 1)

\* for pre in pres { inner loop; if is_valid { break } }
RECURSIVE OuterPrefixLoop(_, _, _, _)
OuterPrefixLoop(bech, pres, posts, i) ==
    IF i > Len(pres) THEN [valid |-> FALSE, label |-> <<>>]
    ELSE LET r == InnerSuffixLoop(bech, pres[i], posts, 1)
         IN IF r.valid THEN r ELSE OuterPrefixLoop(bech, pres, posts, i + 1)

\* both loops run to the end (no break): is_valid is the test of the last pair,
\* the label that of the last pair that matched
CombinedSearchNoBreak(bech, pres, posts) ==
    LET m(i, j) == StartsWith(bech, Npub1 \o pres[i]) /\ EndsWith(bech, posts[j])
        pairs == {q \in (1..Len(pres)) \X (1..Len(posts)) : m(q[1], q[2])}
        last == CHOOSE q \in pairs :
                    \A r \in pairs : r[1] < q[1] \/ (r[1] = q[1] /\ r[2] <= q[2])
    IN [valid |-> m(Len(pres), Len(posts)),
        label |-> IF pairs = {} THEN <<>>
                  ELSE pres[last[1]] \o Dots \o posts[last[2]]]

CombinedSearch(bech, pres, posts) == OuterPrefixLoop(bech, pres, posts, 1)

RECURSIVE PrefixSearchFrom(_, _, _)
PrefixSearchFrom(bech, pres, i) ==
    IF i > Len(pres) THEN [valid |-> FALSE, label |-> <<>>]
    ELSE IF StartsWith(bech, Npub1 \o pres[i])
         THEN [valid |-> TRUE, label |-> pres[i]]
         ELSE PrefixSearchFrom(bech, pres, i + 1)

\* the loop runs to the end (no break): is_valid is the test of the last
\* prefix, the label the last prefix that matched
PrefixSearchNoBreak(bech, pres) ==
    LET hits == {i \in 1..Len(pres) : StartsWith(bech, Npub1 \o pres[i])}
        last == CHOOSE i \in hits : \A k \in hits : k <= i
    IN [valid |-> Len(pres) \in hits,
        label |-> IF hits = {} THEN <<>> ELSE pres[last]]

PrefixSearch(bech, pres) == PrefixSearchFrom(bech, pres, 1)

RECURSIVE SuffixSearchFrom(_, _, _)
SuffixSearchFrom(bech, posts, j) ==
    IF j > Len(posts) THEN [valid |-> FALSE, label |-> <<>>]
    ELSE IF EndsWith(bech, posts[j])
         THEN [valid |-> TRUE, label |-> posts[j]]
         ELSE SuffixSearchFrom(bech, posts, j + 1)

SuffixSearch(bech, posts) == SuffixSearchFrom(bech, posts, 1)

\* the bech32 branch: which of the three loops runs
Bech32Search(bech, pres, posts) ==
    IF pres # <<>> /\ posts # <<>> THEN CombinedSearch(bech, pres, posts)
    ELSE IF pres # <<>> THEN PrefixSearch(bech, pres)
    ELSE SuffixSearch(bech, posts)

\* >= instead of >
DifficultySearchGe(lz, best) == lz >= best

\* leading_zeroes > best_diff.load()
DifficultySearch(lz, best) == lz > best

\* ---------------------------------------------------------------- workers

\* loop head: iterations.fetch_add(1)
LoopHead(w) ==
    /\ pc[w] = "loop"
    /\ iterations < MaxIter
    /\ iterations' = fetch_add(iterations, 1)
    /\ started' = [started EXCEPT ![w] = @ + 1]
    /\ pc' = [pc EXCEPT ![w] = "generate"]
    /\ UNCHANGED <<mainVars, best_diff, vanity_ts, vanity_npubs_pre_ts,
                   vanity_npubs_post_ts, localVars, reports, completed>>

\* a key pair from the mnemonic (word_count > 0) or from secp256k1
GenerateKeys(w) ==
    /\ pc[w] = "generate"
    /\ \E k \in Keys : key' = [key EXCEPT ![w] = k]
    /\ uses_mnemonic' = [uses_mnemonic EXCEPT ![w] = args.word_count > 0]
    /\ pc' = [pc EXCEPT ![w] = "evaluate"]
    /\ UNCHANGED <<mainVars, sharedVars, bech_key, leading_zeroes, is_valid_pubkey,
                   vanity_npub, histVars>>

\* the panic aborts the process: every running thread ends
GenerateFailsAbort(w) ==
    /\ pc[w] = "generate"
    /\ args.word_count > 0
    /\ pc' = [v \in Workers |-> IF pc[v] = "unspawned" THEN "unspawned" ELSE "panicked"]
    /\ UNCHANGED <<mainVars, sharedVars, localVars, histVars>>

\* one of the .expect(..) calls of the mnemonic branch panics: the thread ends
GenerateFails(w) ==
    /\ pc[w] = "generate"
    /\ args.word_count > 0
    /\ pc' = [pc EXCEPT ![w] = "panicked"]
    /\ UNCHANGED <<mainVars, sharedVars, localVars, histVars>>

\* the hex branch also measures the key and goes through the register
EvaluateHexWithLz(w) ==
    /\ pc[w] = "evaluate"
    /\ vanity_ts # <<>>
    /\ LET lz == get_leading_zero_bits(key[w])
       IN /\ leading_zeroes' = [leading_zeroes EXCEPT ![w] = lz]
          /\ is_valid_pubkey' = [is_valid_pubkey EXCEPT ![w] = HexSearch(ToHex(key[w]), vanity_ts)]
          /\ pc' = [pc EXCEPT ![w] = IF DifficultySearch(lz, best_diff)
                                     THEN "check_set" ELSE "if_valid"]
    /\ UNCHANGED <<mainVars, sharedVars, key, uses_mnemonic, bech_key, vanity_npub, histVars>>

EvaluateHex(w) ==
    /\ pc[w] = "evaluate"
    /\ vanity_ts # <<>>
    /\ is_valid_pubkey' = [is_valid_pubkey EXCEPT ![w] = HexSearch(ToHex(key[w]), vanity_ts)]
    /\ pc' = [pc EXCEPT ![w] = "if_valid"]
    /\ UNCHANGED <<mainVars, sharedVars, key, uses_mnemonic, bech_key, leading_zeroes,
                   vanity_npub, histVars>>

\* the bech32 branch tested before the hex one
EvaluateBech32First(w) ==
    /\ pc[w] = "evaluate"
    /\ vanity_npubs_pre_ts # <<>> \/ vanity_npubs_post_ts # <<>>
    /\ LET b == bech32_encode(key[w])
           r == Bech32Search(b, vanity_npubs_pre_ts, vanity_npubs_post_ts)
       IN /\ bech_key' = [bech_key EXCEPT ![w] = b]
          /\ is_valid_pubkey' = [is_valid_pubkey EXCEPT ![w] = r.valid]
          /\ vanity_npub' = [vanity_npub EXCEPT ![w] = r.label]
    /\ pc' = [pc EXCEPT ![w] = "if_valid"]
    /\ UNCHANGED <<mainVars, sharedVars, key, uses_mnemonic, leading_zeroes, histVars>>

EvaluateBech32(w) ==
    /\ pc[w] = "evaluate"
    /\ vanity_ts = <<>>
    /\ vanity_npubs_pre_ts # <<>> \/ vanity_npubs_post_ts # <<>>
    /\ LET b == bech32_encode(key[w])
           r == Bech32Search(b, vanity_npubs_pre_ts, vanity_npubs_post_ts)
       IN /\ bech_key' = [bech_key EXCEPT ![w] = b]
          /\ is_valid_pubkey' = [is_valid_pubkey EXCEPT ![w] = r.valid]
          /\ vanity_npub' = [vanity_npub EXCEPT ![w] = r.label]
    /\ pc' = [pc EXCEPT ![w] = "if_valid"]
    /\ UNCHANGED <<mainVars, sharedVars, key, uses_mnemonic, leading_zeroes, histVars>>

\* difficulty search: the first load of best_diff and the comparison
EvaluateDifficulty(w) ==
    /\ pc[w] = "evaluate"
    /\ vanity_ts = <<>>
    /\ vanity_npubs_pre_ts = <<>> /\ vanity_npubs_post_ts = <<>>
    /\ LET lz == get_leading_zero_bits(key[w])
       IN /\ leading_zeroes' = [leading_zeroes EXCEPT ![w] = lz]
          /\ is_valid_pubkey' = [is_valid_pubkey EXCEPT ![w] = DifficultySearch(lz, best_diff)]
          /\ pc' = [pc EXCEPT ![w] = IF DifficultySearch(lz, best_diff)
                                     THEN "check_set" ELSE "if_valid"]
    /\ UNCHANGED <<mainVars, sharedVars, key, uses_mnemonic, bech_key, vanity_npub, histVars>>

\* the second load: if best_diff.load() > 0
CheckSet(w) ==
    /\ pc[w] = "check_set"
    /\ pc' = [pc EXCEPT ![w] = IF best_diff > 0 THEN "update" ELSE "if_valid"]
    /\ UNCHANGED <<mainVars, sharedVars, localVars, histVars>>

\* best_diff.fetch_update(.., |_| Some(leading_zeroes))
UpdateBest(w) ==
    /\ pc[w] = "update"
    /\ best_diff' = fetch_update(best_diff, leading_zeroes[w])
    /\ pc' = [pc EXCEPT ![w] = "if_valid"]
    /\ UNCHANGED <<mainVars, iterations, vanity_ts, vanity_npubs_pre_ts,
                   vanity_npubs_post_ts, localVars, histVars>>

\* the locals of the loop body go out of scope at the end of the iteration
EndIteration(w) ==
    /\ key' = [key EXCEPT ![w] = <<>>]
    /\ uses_mnemonic' = [uses_mnemonic EXCEPT ![w] = FALSE]
    /\ bech_key' = [bech_key EXCEPT ![w] = <<>>]
    /\ leading_zeroes' = [leading_zeroes EXCEPT ![w] = 0]
    /\ is_valid_pubkey' = [is_valid_pubkey EXCEPT ![w] = FALSE]
    /\ vanity_npub' = [vanity_npub EXCEPT ![w] = <<>>]
    /\ completed' = [completed EXCEPT ![w] = @ + 1]
    /\ pc' = [pc EXCEPT ![w] = "loop"]

\* the worker leaves its loop after the first match (break)
ReportAndStop(w) ==
    /\ pc[w] = "if_valid"
    /\ is_valid_pubkey[w]
    /\ reports' = Append(reports,
                         [xonly_pub_key |-> ToHex(key[w]),
                          vanity_npub |-> vanity_npub[w],
                          leading_zeroes |-> leading_zeroes[w],
                          mnemonic |-> uses_mnemonic[w],
                          iterations |-> iterations])
    /\ pc' = [pc EXCEPT ![w] = "stopped"]
    /\ completed' = [completed EXCEPT ![w] = @ + 1]
    /\ UNCHANGED <<mainVars, sharedVars, localVars, started>>

\* the report shows the count without the reporting iteration
ReportPreviousCount(w) ==
    /\ pc[w] = "if_valid"
    /\ is_valid_pubkey[w]
    /\ reports' = Append(reports,
                         [xonly_pub_key |-> ToHex(key[w]),
                          vanity_npub |-> vanity_npub[w],
                          leading_zeroes |-> leading_zeroes[w],
                          mnemonic |-> uses_mnemonic[w],
                          iterations |-> iterations - 1])
    /\ EndIteration(w)
    /\ UNCHANGED <<mainVars, sharedVars, started>>

\* if is_valid_pubkey { print_keys(..); iterations.load(); println!(..) }
Report(w) ==
    /\ pc[w] = "if_valid"
    /\ is_valid_pubkey[w]
    /\ reports' = Append(reports,
                         [xonly_pub_key |-> ToHex(key[w]),
                          vanity_npub |-> vanity_npub[w],
                          leading_zeroes |-> leading_zeroes[w],
                          mnemonic |-> uses_mnemonic[w],
                          iterations |-> iterations])
    /\ EndIteration(w)
    /\ UNCHANGED <<mainVars, sharedVars, started>>

NoReport(w) ==
    /\ pc[w] = "if_valid"
    /\ ~is_valid_pubkey[w]
    /\ EndIteration(w)
    /\ UNCHANGED <<mainVars, sharedVars, reports, started>>

WorkerStep(w) ==
    \/ LoopHead(w)
    \/ GenerateKeys(w)
    \/ GenerateFails(w)
    \/ EvaluateHex(w)
    \/ EvaluateBech32(w)
    \/ EvaluateDifficulty(w)
    \/ CheckSet(w)
    \/ UpdateBest(w)
    \/ Report(w)
    \/ NoReport(w)

MainStep ==
    \/ CheckArgs
    \/ Resolve
    \/ CreateShared
    \/ SpawnWorker
    \/ SpawnDone
    \/ MainSleep

Next ==
    \/ MainStep
    \/ \E w \in Workers : WorkerStep(w)

Spec == Init /\ [][Next]_vars

\* ---------------------------------------------------------------- properties

Running(w) == pc[w] \notin {"unspawned", "panicked"}

LzOf(i) == reports[i].leading_zeroes

\* C1: in difficulty mode with a nonzero initial threshold no write to
\* best_diff stores a value smaller than the one the register held just
\* before it, for any number of workers and any interleaving.
C1_RegisterNonDecreasing ==
    [][(announced = "difficulty" /\ pow_difficulty # 0 /\ main_pc \in {"spawn", "sleep"})
          => best_diff' >= best_diff]_vars

\* C2: in difficulty mode every report's leading_zero_bits is strictly
\* greater than that of every report emitted before it, for any number of
\* workers.
C2_ReportsStrictlyIncreasing ==
    announced = "difficulty" =>
        \A i, j \in 1..Len(reports) : i < j => LzOf(i) < LzOf(j)

\* C3: every started loop iteration adds exactly 1 to iterations, the
\* counter never decreases, and when all W spawned workers stand at the loop
\* head having completed N iterations each (none failed) it equals W * N.
C3_CounterExact ==
    /\ [][\A w \in Workers : started'[w] # started[w] => iterations' = iterations + 1]_vars
    /\ [][iterations' >= iterations]_vars
    /\ [](\A n \in 0..MaxIter :
            (/\ main_pc = "sleep"
             /\ \A w \in 1..args.num_cores : pc[w] = "loop" /\ completed[w] = n)
            => iterations = args.num_cores * n)

C3_Witness ==
    /\ main_pc = "sleep"
    /\ args.num_cores = 2
    /\ \A w \in 1..2 : pc[w] = "loop" /\ completed[w] = 1

\* C4: with one worker and difficulty 1 the first report has at least 2
\* leading zero bits and each later report has strictly more than the one
\* before it.
C4_SingleWorkerIncreasing ==
    (args.num_cores = 1 /\ announced = "difficulty" /\ args.difficulty = 1) =>
        /\ Len(reports) >= 1 => LzOf(1) >= 2
        /\ \A i \in 1..(Len(reports) - 1) : LzOf(i) < LzOf(i + 1)

C4_Witness ==
    /\ args.num_cores = 1
    /\ announced = "difficulty"
    /\ args.difficulty = 1
    /\ Len(reports) = 2
    /\ completed[1] = 2

\* the first of the target inputs that is configured, in priority order
PriorityMode(a) ==
    LET pre == NonEmptyPieces(a.vanity_npub_prefixes_raw_input)
        post == NonEmptyPieces(a.vanity_npub_suffixes_raw_input)
        configured == <<a.vanity_prefix # <<>>,
                        pre # <<>> /\ post # <<>>,
                        pre # <<>>,
                        post # <<>>,
                        TRUE>>
        names == <<"hex", "npub_both", "npub_prefix", "npub_suffix", "difficulty">>
        first == CHOOSE i \in 1..5 : configured[i] /\ \A j \in 1..(i - 1) : ~configured[j]
    IN names[first]

\* C5: whatever the four target inputs, the announced mode is the first
\* configured one in the order hex prefix, bech32 prefix with suffix, bech32
\* prefix, bech32 suffix, difficulty; in difficulty mode a difficulty of 0
\* becomes DIFFICULTY_DEFAULT (10) and any other value is kept.
C5_ModePriority ==
    announced # "none" =>
        /\ announced = PriorityMode(args)
        /\ announced = "difficulty" =>
              /\ args.difficulty = 0 => difficulty = 10 /\ pow_difficulty = 10
              /\ args.difficulty # 0 => difficulty = args.difficulty
                                         /\ pow_difficulty = args.difficulty

C5_Witness ==
    /\ announced = "hex"
    /\ args.vanity_prefix # <<>>
    /\ vanity_npub_prefixes # <<>>
    /\ vanity_npub_suffixes # <<>>
    /\ args.difficulty # 0
    /\ main_pc = "sleep"

\* s is p followed by some rest
HasPrefix(s, p) == Len(p) <= Len(s) /\ SubSeq(s, 1, Len(p)) = p
HasSuffix(s, p) == Len(p) <= Len(s) /\ SubSeq(s, Len(s) - Len(p) + 1, Len(s)) = p

\* C6: in hex prefix mode a candidate is accepted exactly when its hex key
\* begins with the prefix, whatever leading_zeroes and best_diff are; a
\* report is emitted exactly for the accepted candidates and every reported
\* key begins with the prefix.
C6_HexPrefixIff ==
    /\ [](vanity_ts # <<>> =>
            /\ \A w \in Workers :
                  pc[w] = "if_valid" =>
                      (is_valid_pubkey[w] <=> HasPrefix(ToHex(key[w]), vanity_ts))
            /\ \A i \in 1..Len(reports) : HasPrefix(reports[i].xonly_pub_key, vanity_ts))
    /\ [][\A w \in Workers :
            (vanity_ts # <<>> /\ pc[w] = "if_valid" /\ pc'[w] # "if_valid") =>
                IF HasPrefix(ToHex(key[w]), vanity_ts)
                THEN /\ Len(reports') = Len(reports) + 1
                     /\ SubSeq(reports', 1, Len(reports)) = reports
                     /\ reports'[Len(reports')].xonly_pub_key = ToHex(key[w])
                ELSE reports' = reports]_vars

C6_Witness ==
    /\ vanity_ts = <<"0", "0">>
    /\ Len(reports) = 1
    /\ \E w \in Workers :
          /\ pc[w] = "if_valid"
          /\ ~is_valid_pubkey[w]
          /\ ~HasPrefix(ToHex(key[w]), vanity_ts)

\* the pairs (prefix index, suffix index) the encoding satisfies
SatisfiedPairs(bech, pres, posts) ==
    {q \in (1..Len(pres)) \X (1..Len(posts)) :
        HasPrefix(bech, Npub1 \o pres[q[1]]) /\ HasSuffix(bech, posts[q[2]])}

FirstPair(pairs) ==
    CHOOSE q \in pairs : \A r \in pairs : q[1] < r[1] \/ (q[1] = r[1] /\ q[2] <= r[2])

CombinedMode == vanity_ts = <<>> /\ vanity_npubs_pre_ts # <<>> /\ vanity_npubs_post_ts # <<>>

\* C7: in combined bech32 mode a candidate is accepted exactly when some
\* pair (p, s) has the encoding start with "npub1" p and end with s; the label
\* of an accepted candidate is p "..." s for the first such pair in
\* prefix-major order, and a rejected candidate has no label.
C7_CombinedFirstPair ==
    CombinedMode =>
        \A w \in Workers :
            pc[w] = "if_valid" =>
                LET pairs == SatisfiedPairs(bech32_encode(key[w]), vanity_npubs_pre_ts,
                                            vanity_npubs_post_ts)
                IN /\ is_valid_pubkey[w] <=> pairs # {}
                   /\ pairs # {} =>
                         vanity_npub[w] = vanity_npubs_pre_ts[FirstPair(pairs)[1]] \o Dots
                                          \o vanity_npubs_post_ts[FirstPair(pairs)[2]]
                   /\ pairs = {} => vanity_npub[w] = <<>>

C7_Witness ==
    /\ CombinedMode
    /\ \E w \in Workers :
          /\ pc[w] = "if_valid"
          /\ is_valid_pubkey[w]
          /\ Cardinality(SatisfiedPairs(bech_key[w], vanity_npubs_pre_ts,
                                        vanity_npubs_post_ts)) > 1
          /\ vanity_npub[w] = <<"q", "q", ".", ".", ".", "h", "5">>

\* C8: a running worker is never stuck: in every mode and at every position,
\* also right after a report of its own or of another worker, it has a next
\* step (at the loop head only the iteration cap of the model can hold it).
C8_NoTerminalState ==
    \A w \in Workers :
        Running(w) =>
            \/ ENABLED WorkerStep(w)
            \/ pc[w] = "loop" /\ iterations >= MaxIter

C8_Witness ==
    /\ args.num_cores = 1
    /\ Len(reports) = 1
    /\ completed[1] = 1
    /\ pc[1] = "evaluate"

WorkerLocals(w) ==
    <<pc[w], key[w], uses_mnemonic[w], bech_key[w], leading_zeroes[w],
      is_valid_pubkey[w], vanity_npub[w], started[w], completed[w]>>

\* C9: a generation failure ends its worker for good (no retry, no report
\* for that iteration) and changes neither best_diff nor the iteration
\* counter nor the reports nor any sibling's state; the siblings keep running.
C9_FailureIsLocal ==
    /\ [][\A w \in Workers :
            (pc[w] # "panicked" /\ pc'[w] = "panicked") =>
                /\ pc[w] = "generate"
                /\ best_diff' = best_diff
                /\ iterations' = iterations
                /\ reports' = reports
                /\ completed'[w] = completed[w]
                /\ \A v \in Workers \ {w} : WorkerLocals(v)' = WorkerLocals(v)]_vars
    /\ [][\A w \in Workers :
            pc[w] = "panicked" => WorkerLocals(w)' = WorkerLocals(w)]_vars
    /\ [](\A w, v \in Workers :
            (pc[w] = "panicked" /\ Running(v)) =>
                \/ ENABLED WorkerStep(v)
                \/ pc[v] = "loop" /\ iterations >= MaxIter)

C9_Witness ==
    /\ pc[1] = "panicked"
    /\ completed[1] = 0
    /\ pc[2] = "loop"
    /\ completed[2] = 1
    /\ Len(reports) = 1

\* C10: the main thread spawns exactly num_cores workers, none before the
\* shared state exists and none after it went to sleep; its own steps never
\* touch a worker's candidate, the reports or (once created) the two atomics,
\* and once asleep it stays asleep.
C10_Orchestrator ==
    /\ [](/\ Cardinality({w \in Workers : pc[w] # "unspawned"}) = spawned
          /\ spawned <= args.num_cores
          /\ main_pc = "sleep" => spawned = args.num_cores
          /\ spawned > 0 => main_pc \in {"spawn", "sleep"})
    /\ [][main_pc = "sleep" => main_pc' = "sleep" /\ spawned' = spawned]_vars
    /\ [][(main_pc' # main_pc \/ spawned' # spawned) =>
            /\ main_pc # "create_shared" =>
                  best_diff' = best_diff /\ iterations' = iterations
            /\ localVars' = localVars
            /\ histVars' = histVars
            /\ \A w \in Workers : pc[w] # "unspawned" => pc'[w] = pc[w]]_vars

C10_Witness ==
    /\ main_pc = "sleep"
    /\ args.num_cores = 2
    /\ spawned = 2
    /\ iterations = 2
    /\ \A w \in Workers : pc[w] = "loop"

\* C11: when the configuration check fails the main thread stops at the
\* check: no mode is resolved, the shared registers are never created, no
\* worker is spawned and no candidate is generated or reported.
C11_NoPartialStartup ==
    ~ArgsOk(args) =>
        /\ main_pc \in {"check_args", "config_error"}
        /\ announced = "none"
        /\ best_diff = 0 /\ iterations = 0
        /\ vanity_ts = <<>> /\ vanity_npubs_pre_ts = <<>> /\ vanity_npubs_post_ts = <<>>
        /\ spawned = 0
        /\ \A w \in Workers : pc[w] = "unspawned" /\ key[w] = <<>> /\ started[w] = 0
        /\ reports = <<>>

C11_Witness ==
    /\ main_pc = "config_error"
    /\ ~ArgsOk(args)
    /\ args.vanity_prefix # <<>>
    /\ args.difficulty # 0

\* a report that does not exceed an earlier one
StaleReport ==
    \E i, j \in 1..Len(reports) : i < j /\ LzOf(j) <= LzOf(i)

\* C12: in difficulty mode a report that is not strictly above an earlier
\* one needs two workers that passed the test against the same register
\* value; with a single worker no such report is ever emitted.
C12_StaleNeedsTwoWorkers ==
    (announced = "difficulty" /\ StaleReport) =>
        /\ args.num_cores >= 2
        /\ Cardinality({w \in Workers : started[w] > 0}) >= 2

\* both workers ran one iteration each, both passed the test against the
\* initial threshold, and the second report is not above the first
C12_Witness ==
    /\ announced = "difficulty"
    /\ args.num_cores = 2
    /\ completed = <<1, 1>>
    /\ Len(reports) = 2
    /\ LzOf(1) > pow_difficulty /\ LzOf(2) > pow_difficulty
    /\ LzOf(2) <= LzOf(1)

\* the lengths of the configured entries of a raw list
EntryLens(raw) == {Len(raw[i]) : i \in {k \in 1..Len(raw) : raw[k] # <<>>}}

MinOf(S) == CHOOSE n \in S : \A m \in S : n <= m

\* the first configured entry of a raw list
FirstEntry(raw) == raw[MinOf({k \in 1..Len(raw) : raw[k] # <<>>})]

NpubModes == {"npub_both", "npub_prefix", "npub_suffix"}

\* C13 as stated: in the bech32 vanity modes the estimate is 4 bits per
\* character of the shortest configured prefix or suffix, whichever entry
\* comes first in its list.
C13_EstimateFromShortest ==
    announced \in NpubModes =>
        pow_difficulty =
            4 * MinOf(EntryLens(args.vanity_npub_prefixes_raw_input)
                      \cup EntryLens(args.vanity_npub_suffixes_raw_input))

\* C13 amended: the estimate is 4 bits per character of the first configured
\* entry: the hex prefix in hex mode, the first prefix in prefix mode, the
\* first suffix in suffix mode, and the first prefix plus the first suffix in
\* combined mode, kept as an 8-bit value.
C13_EstimateFromFirst ==
    /\ announced = "hex" => pow_difficulty = (4 * Len(args.vanity_prefix)) % 256
    /\ announced = "npub_both" =>
          pow_difficulty = (4 * Len(FirstEntry(args.vanity_npub_prefixes_raw_input))
                            + 4 * Len(FirstEntry(args.vanity_npub_suffixes_raw_input))) % 256
    /\ announced = "npub_prefix" =>
          pow_difficulty = (4 * Len(FirstEntry(args.vanity_npub_prefixes_raw_input))) % 256
    /\ announced = "npub_suffix" =>
          pow_difficulty = (4 * Len(FirstEntry(args.vanity_npub_suffixes_raw_input))) % 256

\* combined mode resolved on lists whose first entries are not the shortest
C13_Witness ==
    /\ announced = "npub_both"
    /\ Len(vanity_npub_prefixes[1]) > MinOf(EntryLens(args.vanity_npub_prefixes_raw_input))
    /\ Len(vanity_npub_suffixes[1]) > MinOf(EntryLens(args.vanity_npub_suffixes_raw_input))
    /\ pow_difficulty = 16
    /\ best_diff = 16

PrefixOnlyMode == vanity_ts = <<>> /\ vanity_npubs_pre_ts # <<>> /\ vanity_npubs_post_ts = <<>>
SuffixOnlyMode == vanity_ts = <<>> /\ vanity_npubs_pre_ts = <<>> /\ vanity_npubs_post_ts # <<>>

\* the entries of the configured list the encoding satisfies
SatisfiedPrefixes(bech, pres) ==
    {i \in 1..Len(pres) : HasPrefix(bech, Npub1 \o pres[i])}
SatisfiedSuffixes(bech, posts) ==
    {j \in 1..Len(posts) : HasSuffix(bech, posts[j])}

\* C14: in prefix-only mode a candidate is accepted exactly when its
\* encoding starts with "npub1" p for a configured p, in suffix-only mode
\* exactly when it ends with a configured s; the label of an accepted
\* candidate is the first such entry in list order, a rejected one has the
\* empty label.
C14_SingleSetFirstEntry ==
    \A w \in Workers :
        pc[w] = "if_valid" =>
            /\ PrefixOnlyMode =>
                  LET hits == SatisfiedPrefixes(bech32_encode(key[w]), vanity_npubs_pre_ts)
                  IN /\ is_valid_pubkey[w] <=> hits # {}
                     /\ hits # {} => vanity_npub[w] = vanity_npubs_pre_ts[MinOf(hits)]
                     /\ hits = {} => vanity_npub[w] = <<>>
            /\ SuffixOnlyMode =>
                  LET hits == SatisfiedSuffixes(bech32_encode(key[w]), vanity_npubs_post_ts)
                  IN /\ is_valid_pubkey[w] <=> hits # {}
                     /\ hits # {} => vanity_npub[w] = vanity_npubs_post_ts[MinOf(hits)]
                     /\ hits = {} => vanity_npub[w] = <<>>

\* prefix-only mode, a candidate that two prefixes match, labelled with the first
C14_Witness ==
    /\ PrefixOnlyMode
    /\ \E w \in Workers :
          /\ pc[w] = "if_valid"
          /\ is_valid_pubkey[w]
          /\ Cardinality(SatisfiedPrefixes(bech_key[w], vanity_npubs_pre_ts)) = 2
          /\ vanity_npub[w] = <<"q", "q">>

SharedCreated == main_pc \in {"spawn", "sleep"}

\* C15: in difficulty mode, once created, best_diff is never 0 and never
\* below the initial threshold, whatever the interleaving; so the second
\* load always finds it set, and every report has more leading zero bits than
\* the initial threshold.
C15_RegisterAboveThreshold ==
    (announced = "difficulty" /\ SharedCreated) =>
        /\ pow_difficulty > 0
        /\ best_diff > 0
        /\ best_diff >= pow_difficulty
        /\ \A w \in Workers :
              (pc[w] \in {"check_set", "update"}) => leading_zeroes[w] > pow_difficulty
        /\ \A i \in 1..Len(reports) : LzOf(i) > pow_difficulty

\* two workers raced: the register went up to 15 and back down to 8, still
\* above the threshold 1
C15_Witness ==
    /\ announced = "difficulty"
    /\ pow_difficulty = 1
    /\ Len(reports) = 2
    /\ LzOf(1) = 15 /\ LzOf(2) = 8
    /\ best_diff = 8

VanityMode == announced \in ({"hex"} \cup NpubModes)

\* the match decision of a vanity mode, from the key and the targets alone
VanityDecision(w) ==
    IF announced = "hex"
    THEN HexSearch(ToHex(key[w]), vanity_ts)
    ELSE Bech32Search(bech32_encode(key[w]), vanity_npubs_pre_ts, vanity_npubs_post_ts).valid

\* C16: in every vanity mode the workers never touch best_diff: no worker is
\* ever at one of the steps that load or store it, it keeps the initial
\* estimate, the decision is a function of the key and the targets only, and
\* the leading zero bits of a worker and of every report are 0.
C16_VanityLeavesRegister ==
    /\ [](VanityMode /\ SharedCreated =>
            /\ best_diff = pow_difficulty
            /\ \A w \in Workers :
                  /\ pc[w] \notin {"check_set", "update"}
                  /\ leading_zeroes[w] = 0
                  /\ pc[w] = "if_valid" => is_valid_pubkey[w] = VanityDecision(w)
            /\ \A i \in 1..Len(reports) : LzOf(i) = 0)
    /\ [][VanityMode /\ SharedCreated => best_diff' = best_diff]_vars

\* hex mode, estimate 8: a key with 15 leading zero bits is reported with 0,
\* and the register still holds 8
C16_Witness ==
    /\ announced = "hex"
    /\ pow_difficulty = 8
    /\ best_diff = 8
    /\ Len(reports) >= 1
    /\ reports[1].xonly_pub_key = ToHex(<<0, 1>>)
    /\ get_leading_zero_bits(<<0, 1>>) > best_diff
    /\ LzOf(1) = 0

InProgress(w) == pc[w] \in {"generate", "evaluate", "check_set", "update", "if_valid"}

Aborted(w) == pc[w] = "panicked"

\* iterations a worker has begun: finished ones, the one it is in, the one
\* that ended in a panic
Begun(w) == completed[w] + (IF InProgress(w) \/ Aborted(w) THEN 1 ELSE 0)

RECURSIVE SumTo(_, _)
SumTo(f, n) == IF n = 0 THEN 0 ELSE f[n] + SumTo(f, n - 1)

TotalBegun == SumTo([w \in Workers |-> Begun(w)], MaxCores)

TotalCompleted == SumTo(completed, MaxCores)

\* C17: the counter is incremented at the start of an iteration: it always
\* equals the number of iterations begun by all workers (completed, in
\* progress, aborted by a generation failure), so it is never below the number
\* of completed ones; the count in a report includes the reporting iteration
\* and is at least 1.
C17_CountedAtStart ==
    /\ [](/\ iterations = TotalBegun
          /\ iterations >= TotalCompleted
          /\ \A w \in Workers : started[w] = Begun(w)
          /\ \A i \in 1..Len(reports) : reports[i].iterations >= 1 /\ reports[i].iterations >= i)
    /\ [][Len(reports') = Len(reports) + 1 =>
            /\ reports'[Len(reports')].iterations = iterations
            /\ reports'[Len(reports')].iterations >= TotalCompleted + 1
            /\ TotalCompleted' = TotalCompleted + 1]_vars

\* worker 1 was aborted in its first iteration, worker 2 reported in the second:
\* the counter and the report both say 2 while one iteration has completed
C17_Witness ==
    /\ Aborted(1)
    /\ completed[1] = 0
    /\ Len(reports) = 1
    /\ reports[1].iterations = 2
    /\ iterations = 2
    /\ TotalCompleted = 1

\* the branch the worker's if / else-if chain selects from the shared inputs
DispatchMode ==
    IF vanity_ts # <<>> THEN "hex"
    ELSE IF vanity_npubs_pre_ts # <<>> /\ vanity_npubs_post_ts # <<>> THEN "npub_both"
    ELSE IF vanity_npubs_pre_ts # <<>> THEN "npub_prefix"
    ELSE IF vanity_npubs_post_ts # <<>> THEN "npub_suffix"
    ELSE "difficulty"

\* what the evaluation step of worker w did, seen from its locals
TookHexBranch(w) ==
    /\ bech_key'[w] = <<>>
    /\ leading_zeroes'[w] = 0
    /\ vanity_npub'[w] = <<>>
    /\ is_valid_pubkey'[w] = HexSearch(ToHex(key[w]), vanity_ts)
    /\ pc'[w] = "if_valid"

TookBech32Branch(w, search(_)) ==
    /\ bech_key'[w] = bech32_encode(key[w])
    /\ leading_zeroes'[w] = 0
    /\ is_valid_pubkey'[w] = search(bech_key'[w]).valid
    /\ vanity_npub'[w] = search(bech_key'[w]).label
    /\ pc'[w] = "if_valid"

TookDifficultyBranch(w) ==
    /\ bech_key'[w] = <<>>
    /\ leading_zeroes'[w] = get_leading_zero_bits(key[w])
    /\ leading_zeroes'[w] > 0
    /\ is_valid_pubkey'[w] = (leading_zeroes'[w] > best_diff)

EvaluatedAs(w) ==
    CASE announced = "hex" -> TookHexBranch(w)
      [] announced = "npub_both" ->
            TookBech32Branch(w, LAMBDA b : CombinedSearch(b, vanity_npubs_pre_ts, vanity_npubs_post_ts))
      [] announced = "npub_prefix" ->
            TookBech32Branch(w, LAMBDA b : PrefixSearch(b, vanity_npubs_pre_ts))
      [] announced = "npub_suffix" ->
            TookBech32Branch(w, LAMBDA b : SuffixSearch(b, vanity_npubs_post_ts))
      [] announced = "difficulty" -> TookDifficultyBranch(w)
      [] OTHER -> FALSE

\* C18: for every configuration the branch a worker evaluates a candidate
\* with is the mode announced at startup, for every worker and every
\* iteration: the shared targets select that branch from their creation on,
\* they and the announcement never change afterwards, and each evaluation
\* step does what the announced mode does.
C18_DispatchIsAnnounced ==
    /\ [](SharedCreated => DispatchMode = announced)
    /\ [](SharedCreated => announced = PriorityMode(args))
    /\ [][SharedCreated =>
            UNCHANGED <<announced, vanity_ts, vanity_npubs_pre_ts, vanity_npubs_post_ts>>]_vars
    /\ [][\A w \in Workers :
            (pc[w] = "evaluate" /\ pc'[w] # "evaluate") => EvaluatedAs(w)]_vars

\* a hex prefix and bech32 prefixes are both configured: hex was announced and
\* both workers have evaluated a candidate in the hex branch
C18_Witness ==
    /\ args.vanity_prefix # <<>>
    /\ NonEmptyPieces(args.vanity_npub_prefixes_raw_input) # <<>>
    /\ vanity_npubs_pre_ts # <<>>
    /\ announced = "hex"
    /\ \A w \in Workers : pc[w] = "if_valid" /\ bech_key[w] = <<>>

====
